---- MODULE Spec2Model ----
(***************************************************************************)
(* Model of src/routes/stats/common.rs: the two client filters of the      *)
(* statistics endpoints, remove_excluded_clients and remove_hidden_clients.*)
(*                                                                         *)
(* Strings are sequences of one-character strings, so that lower-casing,   *)
(* splitting on "," and string comparison are computed and not assumed.    *)
(* An Option<&str> is a record [some, val]; a Result<String, Error> read   *)
(* from the environment is a record [ok, val].                             *)
(***************************************************************************)
EXTENDS Integers, Sequences, FiniteSets, TLC

\* ------------------------------------------------------------------ bounds
\* longest client vector the caller passes in
MaxClients == 3
\* longest enumerated API_EXCLUDE_CLIENTS value, in characters
MaxCfgLen == 3
\* number of filter calls made on one vector
MaxCalls == 2

\* ----------------------------------------------------------------- strings
\* the address FTL gives a client hidden by the privacy level: "0.0.0.0"
HIDDEN_IP == <<"0", ".", "0", ".", "0", ".", "0">>

\* str::to_lowercase, on the characters the model uses
LowerChar(c) ==
    CASE c = "A" -> "a"
      [] c = "B" -> "b"
      [] c = "C" -> "c"
      [] OTHER -> c

to_lowercase(s) == [i \in 1..Len(s) |-> LowerChar(s[i])]

\* str::split(","): the segments between separators, empty ones included
RECURSIVE split(_, _)
split(s, sep) ==
    IF \A i \in 1..Len(s) : s[i] # sep
    THEN <<s>>
    ELSE LET i == CHOOSE k \in 1..Len(s) :
                      s[k] = sep /\ \A j \in 1..(k - 1) : s[j] # sep
         IN  <<SubSeq(s, 1, i - 1)>> \o split(SubSeq(s, i + 1, Len(s)), sep)

\* slice::contains
contains(v, x) == \E i \in 1..Len(v) : v[i] = x

\* Option::unwrap_or_default on Option<&str>
unwrap_or_default(opt) == IF opt.some THEN opt.val ELSE <<>>

\* ----------------------------------------------------------------- clients
None == [some |-> FALSE, val |-> <<>>]
Some(s) == [some |-> TRUE, val |-> s]

\* FtlClient seen through FtlStrings: the resolved address and optional name
get_ip(client) == client.ip
get_name(client) == client.name

\* ------------------------------------------------------ the two functions
\* a variant that keeps empty segments
excluded_clients_NoFilter(value) == split(to_lowercase(value), ",")

\* lines 26-30: the exclusion list built from the raw setting
excluded_clients_of(value) ==
    SelectSeq(split(to_lowercase(value), ","), LAMBDA s : s # <<>>)

\* a variant that compares the name as stored
retain_excluded_NameAsIs(client, excluded) ==
    LET ip == get_ip(client)
        name == unwrap_or_default(get_name(client))
    IN  ~contains(excluded, ip) /\ ~contains(excluded, name)

\* a variant that keeps a client unless both keys match
retain_excluded_Either(client, excluded) ==
    LET ip == get_ip(client)
        name == to_lowercase(unwrap_or_default(get_name(client)))
    IN  ~contains(excluded, ip) \/ ~contains(excluded, name)

\* lines 34-39: the closure given to retain
retain_excluded(client, excluded) ==
    LET ip == get_ip(client)
        name == to_lowercase(unwrap_or_default(get_name(client)))
    IN  ~contains(excluded, ip) /\ ~contains(excluded, name)

\* Vec::swap_remove of every rejected element: the last element takes its
\* place.  keep[k] tells whether v[k] is accepted.
RECURSIVE SwapRemoveFrom(_, _, _)
SwapRemoveFrom(v, keep, i) ==
    IF i > Len(v) THEN v
    ELSE IF keep[i] THEN SwapRemoveFrom(v, keep, i + 1)
    ELSE LET n == Len(v)
         IN  SwapRemoveFrom([k \in 1..(n - 1) |-> IF k = i THEN v[n] ELSE v[k]],
                            [k \in 1..(n - 1) |-> IF k = i THEN keep[n] ELSE keep[k]],
                            i)

SwapRemoveAll(v, Keep(_)) == SwapRemoveFrom(v, [k \in 1..Len(v) |-> Keep(v[k])], 1)

\* removal of the first rejected element only
RemoveFirst(v, Keep(_)) ==
    IF \A i \in 1..Len(v) : Keep(v[i]) THEN v
    ELSE LET i == CHOOSE k \in 1..Len(v) :
                      ~Keep(v[k]) /\ \A j \in 1..(k - 1) : Keep(v[j])
         IN  SubSeq(v, 1, i - 1) \o SubSeq(v, i + 1, Len(v))

\* a variant of the exclusion filter that swallows the read error
remove_excluded_clients_Swallow(clients, env) ==
    LET excluded == excluded_clients_of(IF env.ok THEN env.val ELSE <<>>)
    IN  [ret |-> "Ok",
         excluded |-> excluded,
         clients |-> IF excluded # <<>>
                     THEN SelectSeq(clients, LAMBDA c : retain_excluded(c, excluded))
                     ELSE clients]

\* a variant of the exclusion filter that removes with swap_remove
remove_excluded_clients_Swap(clients, env) ==
    IF ~env.ok
    THEN [ret |-> "Err", excluded |-> <<>>, clients |-> clients]
    ELSE LET excluded == excluded_clients_of(env.val)
         IN  [ret |-> "Ok",
              excluded |-> excluded,
              clients |-> IF excluded # <<>>
                          THEN SwapRemoveAll(clients,
                                             LAMBDA c : retain_excluded(c, excluded))
                          ELSE clients]

\* a variant of the exclusion filter that removes one client per call
remove_excluded_clients_First(clients, env) ==
    IF ~env.ok
    THEN [ret |-> "Err", excluded |-> <<>>, clients |-> clients]
    ELSE LET excluded == excluded_clients_of(env.val)
         IN  [ret |-> "Ok",
              excluded |-> excluded,
              clients |-> IF excluded # <<>>
                          THEN RemoveFirst(clients,
                                           LAMBDA c : retain_excluded(c, excluded))
                          ELSE clients]

\* lines 21-43: remove_excluded_clients.  env is the result of
\* SetupVarsEntry::ApiExcludeClients.read(env); `?` returns its error before
\* the vector is touched.  Vec::retain keeps the accepted elements in order.
remove_excluded_clients(clients, env) ==
    IF ~env.ok
    THEN [ret |-> "Err", excluded |-> <<>>, clients |-> clients]
    ELSE LET excluded == excluded_clients_of(env.val)
         IN  [ret |-> "Ok",
              excluded |-> excluded,
              clients |-> IF excluded # <<>>
                          THEN SelectSeq(clients, LAMBDA c : retain_excluded(c, excluded))
                          ELSE clients]

\* a variant of the privacy filter that removes one hidden client per call
remove_hidden_clients_First(clients) ==
    RemoveFirst(clients, LAMBDA c : get_ip(c) # HIDDEN_IP)

\* a variant of the privacy filter that tests the name
remove_hidden_clients_ByName(clients) ==
    SelectSeq(clients, LAMBDA c : unwrap_or_default(get_name(c)) # HIDDEN_IP)

\* lines 47-49: remove_hidden_clients
remove_hidden_clients(clients) ==
    SelectSeq(clients, LAMBDA c : get_ip(c) # HIDDEN_IP)

\* ------------------------------------------------------------------ inputs
RECURSIVE SeqsUpTo(_, _)
SeqsUpTo(S, n) ==
    IF n = 0 THEN {<<>>}
    ELSE LET shorter == SeqsUpTo(S, n - 1)
         IN  shorter \cup {Append(s, x) : s \in {t \in shorter : Len(t) = n - 1}, x \in S}

Client(ip, name) == [ip |-> ip, name |-> name]

\* the clients the enumerated vectors are made of
ClientPool ==
    { Client(<<"a">>, None),
      Client(<<"b">>, Some(<<"A">>)),
      Client(<<"A">>, Some(<<>>)),
      Client(HIDDEN_IP, None),
      Client(HIDDEN_IP, Some(<<"a">>)) }

\* the characters the enumerated settings are made of
CfgChars == {"a", "A", ","}

Ok(s) == [ok |-> TRUE, val |-> s]
Err == [ok |-> FALSE, val |-> <<>>]

\* the fixture of the unit tests (lines 60-76, 88)
TestClients ==
    << Client(<<"1", "0", ".", "1", ".", "1", ".", "1">>,
              Some(<<"c", "l", "i", "e", "n", "t", "1">>)),
       Client(<<"1", "0", ".", "1", ".", "1", ".", "2">>, None),
       Client(HIDDEN_IP, None) >>

TestSetting ==
    <<"1", "0", ".", "1", ".", "1", ".", "2", ",",
      "c", "l", "i", "e", "n", "t", "1">>

\* the spec's "Client1" example: the same setting against an upper-case name
Client1Clients ==
    << Client(<<"1", "0", ".", "1", ".", "1", ".", "1">>,
              Some(<<"C", "l", "i", "e", "n", "t", "1">>)),
       Client(HIDDEN_IP, None) >>

FixedSettings ==
    { TestSetting, HIDDEN_IP, HIDDEN_IP \o <<",", "A">> }

Envs == {Err} \cup {Ok(s) : s \in SeqsUpTo(CfgChars, MaxCfgLen) \cup FixedSettings}

\* ------------------------------------------------------------------- state
VARIABLES
    clients,    \* the caller's Vec<&FtlClient>
    env,        \* what reading API_EXCLUDE_CLIENTS yields
    calls,      \* the calls made so far: [op, ret]
    hist,       \* the vector before the first call and after each call
    excluded_clients    \* the exclusion list built by the last exclusion call

vars == <<clients, env, calls, hist, excluded_clients>>

Init ==
    /\ \/ clients \in SeqsUpTo(ClientPool, MaxClients)
       \/ clients \in {TestClients, Client1Clients}
    /\ env \in Envs
    /\ calls = <<>>
    /\ hist = <<clients>>
    /\ excluded_clients = <<>>

RemoveExcluded ==
    /\ Len(calls) < MaxCalls
    /\ LET r == remove_excluded_clients(clients, env)
       IN  /\ clients' = r.clients
           /\ excluded_clients' = r.excluded
           /\ calls' = Append(calls, [op |-> "excluded", ret |-> r.ret])
           /\ hist' = Append(hist, r.clients)
    /\ UNCHANGED env

RemoveHidden ==
    /\ Len(calls) < MaxCalls
    /\ clients' = remove_hidden_clients(clients)
    /\ calls' = Append(calls, [op |-> "hidden", ret |-> "Ok"])
    /\ hist' = Append(hist, clients')
    /\ UNCHANGED <<env, excluded_clients>>

Next == RemoveExcluded \/ RemoveHidden

Spec == Init /\ [][Next]_vars

\* --------------------------------------------------- vocabulary of the claims
Called == Len(calls) >= 1
LastCall == calls[Len(calls)]
LastExcluded == Called /\ LastCall.op = "excluded"
LastHidden == Called /\ LastCall.op = "hidden"
\* the vector before and after the last call
Before == hist[Len(hist) - 1]
After == clients

Range(v) == {v[i] : i \in 1..Len(v)}
Count(v, c) == Cardinality({i \in 1..Len(v) : v[i] = c})

\* the non-empty comma-separated tokens of s: its maximal comma-free substrings
Tokens(s) ==
    { SubSeq(s, p[1], p[2]) :
        p \in { q \in (1..Len(s)) \X (1..Len(s)) :
                  /\ q[1] <= q[2]
                  /\ \A k \in q[1]..q[2] : s[k] # ","
                  /\ (q[1] = 1 \/ s[q[1] - 1] = ",")
                  /\ (q[2] = Len(s) \/ s[q[2] + 1] = ",") } }

\* ExclusionList as the specification defines it, as a set
ExclusionList == Tokens(to_lowercase(env.val))

LowerName(c) == to_lowercase(IF c.name.some THEN c.name.val ELSE <<>>)
EqIgnoreCase(s, t) == to_lowercase(s) = to_lowercase(t)

RECURSIVE IsSubseq(_, _)
IsSubseq(a, b) ==
    IF a = <<>> THEN TRUE
    ELSE IF b = <<>> THEN FALSE
    ELSE IF Head(a) = Head(b) THEN IsSubseq(Tail(a), Tail(b))
    ELSE IsSubseq(a, Tail(b))

\* ------------------------------------------------------------------ claims
\* C1: with a non-empty ExclusionList, after remove_excluded_clients the vector
\* holds exactly the input clients whose address is not in ExclusionList and
\* whose lower-cased name ("" without a name) is not in it, each as often as
\* before; every other client is gone.
C1_ExactlyNotExcluded ==
    (LastExcluded /\ env.ok /\ ExclusionList # {}) =>
        /\ Range(After) \subseteq Range(Before)
        /\ \A c \in Range(Before) :
               Count(After, c) =
                   IF c.ip \notin ExclusionList /\ LowerName(c) \notin ExclusionList
                   THEN Count(Before, c)
                   ELSE 0

\* C1 witness: an exclusion call that removed some clients and kept others
C1_Witness ==
    /\ LastExcluded /\ env.ok /\ ExclusionList # {}
    /\ After # Before /\ After # <<>>
    /\ \E c \in Range(Before) : c.name.some /\ c.name.val # LowerName(c)
                                /\ c \notin Range(After)

\* C2: after remove_hidden_clients a client is gone iff its address is
\* "0.0.0.0", whatever the exclusion setting is.
C2_HiddenIffSentinel ==
    LastHidden =>
        /\ Range(After) \subseteq Range(Before)
        /\ \A c \in Range(Before) :
               Count(After, c) = IF c.ip = HIDDEN_IP THEN 0 ELSE Count(Before, c)

\* C2 witness: a privacy call that removed a hidden client and kept another,
\* under a setting that names the hidden address
C2_Witness ==
    /\ LastHidden /\ Len(calls) = 1
    /\ env.ok /\ HIDDEN_IP \in ExclusionList
    /\ After # Before /\ After # <<>>

\* C3: a client is removed by remove_excluded_clients whenever some token of
\* the setting equals its address or its name with letter case ignored.
C3_CaseInsensitiveMatch ==
    (LastExcluded /\ env.ok) =>
        \A c \in Range(Before) :
            (\E t \in Tokens(env.val) :
                 \/ EqIgnoreCase(t, c.ip)
                 \/ c.name.some /\ EqIgnoreCase(t, c.name.val))
            => c \notin Range(After)

\* C4: when the setting is empty or made of commas only, the vector after
\* remove_excluded_clients equals the vector before and the call returns Ok.
C4_NoOpOnEmptySetting ==
    (LastExcluded /\ env.ok /\ \A i \in 1..Len(env.val) : env.val[i] = ",") =>
        After = Before /\ LastCall.ret = "Ok"

\* C4 witness: an exclusion call under a commas-only setting on a vector that
\* holds a client without a name
C4_Witness ==
    /\ LastExcluded /\ env.ok
    /\ Len(env.val) >= 2 /\ \A i \in 1..Len(env.val) : env.val[i] = ","
    /\ \E c \in Range(Before) : ~c.name.some

\* C5: remove_excluded_clients returns an error exactly when the read of the
\* setting fails, and then the vector is as it was before the call.
C5_ErrorOnlyOnFailedRead ==
    LastExcluded =>
        /\ (LastCall.ret = "Err") <=> ~env.ok
        /\ ~env.ok => After = Before

\* C5 witness: a failed read on a vector holding clients a setting could exclude
C5_Witness ==
    /\ LastExcluded /\ ~env.ok /\ LastCall.ret = "Err"
    /\ Len(Before) >= 2

\* C6: after either filter the vector is a subsequence of the vector before:
\* retained clients keep their order and none is added or duplicated.
C6_StableRemoval ==
    Called => IsSubseq(After, Before)

\* C6 witness: [A, B, C] with B excluded gives [A, C]
C6_Witness ==
    /\ LastExcluded /\ Len(Before) = 3
    /\ After = <<Before[1], Before[3]>>
    /\ Before[1] # Before[3]

\* C7: a second remove_excluded_clients under the same setting removes nothing.
C7_Idempotent ==
    (Len(calls) = 2 /\ calls[1].op = "excluded" /\ calls[2].op = "excluded") =>
        hist[3] = hist[2]

\* C7 witness: two exclusion calls, the first of which removed clients
C7_Witness ==
    /\ Len(calls) = 2 /\ calls[1].op = "excluded" /\ calls[2].op = "excluded"
    /\ Len(hist[1]) >= Len(hist[2]) + 2
    /\ hist[2] # <<>>

\* C8: a client is removed when its address is in ExclusionList, whatever its
\* name, and when its lower-cased name is in ExclusionList, whatever its address.
C8_DualKey ==
    (LastExcluded /\ env.ok /\ ExclusionList # {}) =>
        \A c \in Range(Before) :
            /\ c.ip \in ExclusionList => c \notin Range(After)
            /\ (c.name.some /\ LowerName(c) \in ExclusionList) => c \notin Range(After)

\* C8 witness: one call removed a client matched by address only (it has no
\* name) and a client matched by name only
C8_Witness ==
    /\ LastExcluded /\ env.ok
    /\ \E c \in Range(Before) :
           c.ip \in ExclusionList /\ ~c.name.some /\ c \notin Range(After)
    /\ \E c \in Range(Before) :
           /\ c.ip \notin ExclusionList
           /\ c.name.some /\ LowerName(c) \in ExclusionList
           /\ c \notin Range(After)

\* C9: the exclusion list built by remove_excluded_clients holds no empty
\* string, and a client without a name is removed only if its address is in
\* ExclusionList.
C9_NoEmptyEntry ==
    /\ \A i \in 1..Len(excluded_clients) : excluded_clients[i] # <<>>
    /\ (LastExcluded /\ env.ok) =>
           \A c \in Range(Before) :
               (~c.name.some /\ c \notin Range(After)) => c.ip \in ExclusionList

\* C9 witness: a setting with an empty token, a list built from it, and a
\* client without a name that stayed
C9_Witness ==
    /\ LastExcluded /\ env.ok
    /\ excluded_clients # <<>>
    /\ \E i \in 1..Len(env.val) : env.val[i] = "," /\ (i = 1 \/ env.val[i - 1] = ",")
    /\ \E c \in Range(Before) : ~c.name.some /\ c \in Range(After)

\* C10: when the read succeeds, exclusion followed by the privacy filter leaves
\* the same vector as the privacy filter followed by exclusion.
C10_FiltersCommute ==
    (Len(calls) = 2 /\ env.ok) =>
        /\ (calls[1].op = "excluded" /\ calls[2].op = "hidden") =>
               clients = remove_excluded_clients(remove_hidden_clients(hist[1]), env).clients
        /\ (calls[1].op = "hidden" /\ calls[2].op = "excluded") =>
               clients = remove_hidden_clients(remove_excluded_clients(hist[1], env).clients)

\* C10 witness: exclusion then privacy filter, each of which removed a client,
\* with a hidden client that the setting excludes as well
C10_Witness ==
    /\ Len(calls) = 2 /\ env.ok
    /\ calls[1].op = "excluded" /\ calls[2].op = "hidden"
    /\ hist[2] # hist[1] /\ hist[3] # hist[2] /\ hist[3] # <<>>
    /\ \E c \in Range(hist[1]) : c.ip = HIDDEN_IP /\ LowerName(c) \in ExclusionList

====
